---- MODULE Spec2Model ----
(***************************************************************************)
(* Model of ansible/scripts/langchain/langchain_client.py: the             *)
(* LangChainClient methods (one HTTP exchange each), the chat_stream       *)
(* generator, and the command-line entry point.                            *)
(*                                                                         *)
(* JSON objects, payloads and keyword arguments are sets of <<key, value>> *)
(* pairs; every JSON scalar is written as a string token ("5" is the       *)
(* number 5, "False" the boolean false, None the Python None).  Bytes are  *)
(* naturals 0..255, text is a sequence of code points.                     *)
(***************************************************************************)
EXTENDS Naturals, Sequences, FiniteSets

VARIABLES call, gen, cli

vars == <<call, gen, cli>>

\* ------------------------------------------------------------------ bounds
\* Longest response text (in characters) of a streamed body.
MaxChars == 2

\* ------------------------------------------------------------- dictionaries
None == "<None>"

Keys(m) == {p[1] : p \in m}

HasKey(m, k) == k \in Keys(m)

Get(m, k) == (CHOOSE p \in m : p[1] = k)[2]

\* {**m, **kw}: entries of kw win over entries of m with the same key.
Update(m, kw) == {p \in m : p[1] \notin Keys(kw)} \cup kw

\* Python truthiness of an Optional[str].
Truthy(s) == s # None /\ s # ""

\* ------------------------------------------------------------------- UTF-8
\* str.encode('utf-8') of one code point below U+0800.
utf8_encode_char(cp) ==
    IF cp < 128 THEN <<cp>> ELSE <<192 + (cp \div 64), 128 + (cp % 64)>>

RECURSIVE utf8_encode(_)
utf8_encode(text) ==
    IF text = <<>> THEN <<>>
    ELSE utf8_encode_char(Head(text)) \o utf8_encode(Tail(text))

DecodeError == [ok |-> FALSE, text |-> <<>>]

\* bytes.decode('utf-8'), strict: one- and two-byte sequences; a lead byte
\* without its continuation byte, or a stray continuation byte, is an error.
RECURSIVE decode(_)
decode(bytes) ==
    IF bytes = <<>> THEN [ok |-> TRUE, text |-> <<>>]
    ELSE LET b == Head(bytes) IN
         IF b < 128
         THEN LET r == decode(Tail(bytes)) IN
              IF r.ok THEN [ok |-> TRUE, text |-> <<b>> \o r.text]
              ELSE DecodeError
         ELSE IF b >= 194 /\ b <= 223 /\ Len(bytes) >= 2
                 /\ bytes[2] >= 128 /\ bytes[2] <= 191
         THEN LET r == decode(Tail(Tail(bytes))) IN
              IF r.ok
              THEN [ok |-> TRUE,
                    text |-> <<(b - 192) * 64 + (bytes[2] - 128)>> \o r.text]
              ELSE DecodeError
         ELSE DecodeError

RECURSIVE Concat(_)
Concat(seqs) ==
    IF seqs = <<>> THEN <<>> ELSE Head(seqs) \o Concat(Tail(seqs))

\* ------------------------------------------------------- the remote service
\* Code points the service writes: 'a' (one byte) and U+00E9 (two bytes).
Chars == {97, 233}

Texts == UNION {[1..n -> Chars] : n \in 0..MaxChars}

\* Every way the connection can cut a body into non-empty chunks.
RECURSIVE Chunkings(_)
Chunkings(bytes) ==
    IF bytes = <<>> THEN {<<>>}
    ELSE UNION {{<<SubSeq(bytes, 1, n)>> \o rest :
                   rest \in Chunkings(SubSeq(bytes, n + 1, Len(bytes)))} :
                n \in 1..Len(bytes)}

Statuses == {200, 201, 204, 299, 300, 304, 399, 400, 404, 499, 500, 503, 599, 600}

FullBody ==
    {<<"status", "ok">>, <<"response", "r1">>, <<"summary", "s1">>,
     <<"history", "h1">>, <<"conversations", "c1">>, <<"answer", "a1">>,
     <<"sources", "with_metadata">>, <<"output", "o1">>}

\* "sources" holds an item without a 'metadata' key.
BadSourcesBody ==
    {<<"status", "ok">>, <<"response", "r2">>, <<"summary", "r2">>,
     <<"history", "r2">>, <<"conversations", "r2">>, <<"answer", "a2">>,
     <<"sources", "without_metadata">>, <<"output", "o2">>}

ErrorBody == {<<"detail", "x">>}

JsonBodies ==
    {[json |-> TRUE, obj |-> o] : o \in {FullBody, BadSourcesBody, ErrorBody}}
    \cup {[json |-> FALSE, obj |-> {}]}

TransportErrors ==
    {[kind |-> k, status |-> 0, body |-> [json |-> FALSE, obj |-> {}]] :
       k \in {"ConnectionError", "Timeout"}}

Responses ==
    {[kind |-> "response", status |-> s, body |-> b] :
       s \in Statuses, b \in JsonBodies}
    \cup TransportErrors

StreamTransportErrors ==
    {[kind |-> k, status |-> 0, chunks |-> <<>>] :
       k \in {"ConnectionError", "Timeout"}}

StreamResponses ==
    {[kind |-> "response", status |-> s, chunks |-> c] :
       s \in Statuses, c \in UNION {Chunkings(utf8_encode(t)) : t \in Texts}}
    \cup StreamTransportErrors

\* ------------------------------------------------------------ HTTP exchange
Return(v) == [kind |-> "return", value |-> v]

Raise(e) == [kind |-> "raise", err |-> e]

\* requests.exceptions.RequestException and the subclasses that always are.
RequestErrors == {"HTTPError", "ConnectionError", "Timeout"}

\* A session call that sends the request again when the first try fails.
session_request_retry(method, path, body, resp) ==
    IF resp.kind # "response" \/ resp.status >= 500
    THEN <<[method |-> method, path |-> path, body |-> body],
           [method |-> method, path |-> path, body |-> body]>>
    ELSE <<[method |-> method, path |-> path, body |-> body]>>

\* What one self.session.get/post/delete puts on the wire.
session_request(method, path, body, resp) ==
    <<[method |-> method, path |-> path, body |-> body]>>

\* raise_for_status() that knows server errors only.
raise_for_status_server_only(resp) == resp.status >= 500 /\ resp.status < 600

\* response.raise_for_status(): TRUE when it raises HTTPError.
raise_for_status(resp) == resp.status >= 400 /\ resp.status < 600

WholeBody == "<whole>"

\* session call, raise_for_status(), response.json() and the optional [field].
Exchange(op, args, method, path, body, resp, field) ==
    [op |-> op,
     args |-> args,
     resp |-> resp,
     requests |-> session_request(method, path, body, resp),
     result |->
        IF resp.kind # "response" THEN Raise(resp.kind)
        ELSE IF raise_for_status(resp) THEN Raise("HTTPError")
        ELSE IF ~resp.body.json THEN Raise("JSONDecodeError")
        ELSE IF field = WholeBody THEN Return(resp.body.obj)
        ELSE IF HasKey(resp.body.obj, field)
             THEN Return(Get(resp.body.obj, field))
        ELSE Raise("KeyError")]

\* ------------------------------------------------------ argument domains
Messages == {"hello"}

ModelConfigs == {"general", "code"}

\* Optional[str] session ids: absent, empty, given.
OptSessionIds == {None, "", "s1"}

\* str session ids of the memory and conversation calls.
SessionIds == {"", "s1"}

Collections == {"langchain_general"}

Ks == {"5", "3"}

AgentTypes == {"devops", "noc"}

Verbose == {"False", "True"}

PromptTypes == {"general", "log"}

ConfigTypes == {"generic"}

\* ------------------------------------------------------- LangChainClient
health(resp) ==
    Exchange("health", {}, "GET", <<"health">>, {}, resp, WholeBody)

info(resp) ==
    Exchange("info", {}, "GET", <<"info">>, {}, resp, WholeBody)

\* A payload that carries session_id whether or not one was given.
chat_payload_always_session(message, model_config, session_id) ==
    {<<"message", message>>, <<"model_config", model_config>>,
     <<"session_id", session_id>>}

chat_payload(message, model_config, session_id) ==
    {<<"message", message>>, <<"model_config", model_config>>}
    \cup (IF Truthy(session_id) THEN {<<"session_id", session_id>>} ELSE {})

\* chat that reads the wrong field of the response.
chat_wrong_field(message, model_config, session_id, resp) ==
    Exchange("chat",
             {<<"message", message>>, <<"model_config", model_config>>,
              <<"session_id", session_id>>},
             "POST", <<"chat">>,
             chat_payload(message, model_config, session_id),
             resp, "summary")

chat(message, model_config, session_id, resp) ==
    Exchange("chat",
             {<<"message", message>>, <<"model_config", model_config>>,
              <<"session_id", session_id>>},
             "POST", <<"chat">>,
             chat_payload(message, model_config, session_id),
             resp, "response")

rag_query(question, collection, model_config, k, resp) ==
    Exchange("rag_query",
             {<<"question", question>>, <<"collection", collection>>,
              <<"model_config", model_config>>, <<"k", k>>},
             "POST", <<"rag", "query">>,
             {<<"question", question>>, <<"collection", collection>>,
              <<"model_config", model_config>>, <<"k", k>>},
             resp, WholeBody)

rag_conversational_payload(question, collection, session_id, model_config, k) ==
    {<<"question", question>>, <<"collection", collection>>,
     <<"model_config", model_config>>, <<"k", k>>}
    \cup (IF Truthy(session_id) THEN {<<"session_id", session_id>>} ELSE {})

rag_conversational(question, collection, session_id, model_config, k, resp) ==
    Exchange("rag_conversational",
             {<<"question", question>>, <<"collection", collection>>,
              <<"session_id", session_id>>,
              <<"model_config", model_config>>, <<"k", k>>},
             "POST", <<"rag", "conversational">>,
             rag_conversational_payload(question, collection, session_id,
                                        model_config, k),
             resp, WholeBody)

run_agent(task, agent_type, verbose, resp) ==
    Exchange("run_agent",
             {<<"task", task>>, <<"agent_type", agent_type>>,
              <<"verbose", verbose>>},
             "POST", <<"agent", "run">>,
             {<<"task", task>>, <<"agent_type", agent_type>>,
              <<"verbose", verbose>>},
             resp, WholeBody)

troubleshoot(issue, verbose, resp) ==
    Exchange("troubleshoot",
             {<<"issue", issue>>, <<"verbose", verbose>>},
             "POST", <<"agent", "troubleshoot">>,
             {<<"issue", issue>>, <<"verbose", verbose>>},
             resp, WholeBody)

summarize(text, prompt_type, model_config, resp) ==
    Exchange("summarize",
             {<<"text", text>>, <<"prompt_type", prompt_type>>,
              <<"model_config", model_config>>},
             "POST", <<"summarize">>,
             {<<"text", text>>, <<"prompt_type", prompt_type>>,
              <<"model_config", model_config>>},
             resp, "summary")

analyze_logs(log_content, model_config, resp) ==
    Exchange("analyze_logs",
             {<<"log_content", log_content>>, <<"model_config", model_config>>},
             "POST", <<"summarize", "log">>,
             {<<"log_content", log_content>>, <<"model_config", model_config>>},
             resp, WholeBody)

analyze_config(config_content, config_type, model_config, resp) ==
    Exchange("analyze_config",
             {<<"config_content", config_content>>,
              <<"config_type", config_type>>,
              <<"model_config", model_config>>},
             "POST", <<"summarize", "config">>,
             {<<"config_content", config_content>>,
              <<"config_type", config_type>>,
              <<"model_config", model_config>>},
             resp, WholeBody)

\* Binding of create_memory(*pos, **kw) to (session_id, memory_type="buffer",
\* **kwargs): pos is the positional session id or None when it is not given
\* positionally; a session id given twice, or not at all, is a TypeError
\* raised before the method body runs.
Bindable(pos, kw) == (pos # None) # HasKey(kw, "session_id")

bind_session_id(pos, kw) == IF pos # None THEN pos ELSE Get(kw, "session_id")

bind_memory_type(kw) ==
    IF HasKey(kw, "memory_type") THEN Get(kw, "memory_type") ELSE "buffer"

bind_kwargs(kw) == {p \in kw : p[1] \notin {"session_id", "memory_type"}}

\* A payload that leaves the extra keyword arguments out.
create_memory_payload_no_extras(session_id, memory_type, kwargs) ==
    {<<"session_id", session_id>>, <<"memory_type", memory_type>>}

create_memory_payload(session_id, memory_type, kwargs) ==
    Update({<<"session_id", session_id>>, <<"memory_type", memory_type>>},
           kwargs)

create_memory(session_id, memory_type, kwargs, resp) ==
    [Exchange("create_memory",
              {<<"session_id", session_id>>, <<"memory_type", memory_type>>},
              "POST", <<"memory", "create">>,
              create_memory_payload(session_id, memory_type, kwargs),
              resp, WholeBody)
     EXCEPT !.args = [fixed |-> @, kwargs |-> kwargs]]

get_memory_history(session_id, resp) ==
    Exchange("get_memory_history", {<<"session_id", session_id>>},
             "GET", <<"memory", session_id, "history">>, {}, resp, "history")

clear_memory(session_id, resp) ==
    Exchange("clear_memory", {<<"session_id", session_id>>},
             "DELETE", <<"memory", session_id, "clear">>, {}, resp, WholeBody)

list_conversations(resp) ==
    Exchange("list_conversations", {},
             "GET", <<"conversations">>, {}, resp, "conversations")

get_conversation(session_id, resp) ==
    Exchange("get_conversation", {<<"session_id", session_id>>},
             "GET", <<"conversations", session_id>>, {}, resp, WholeBody)

delete_conversation(session_id, resp) ==
    Exchange("delete_conversation", {<<"session_id", session_id>>},
             "DELETE", <<"conversations", session_id>>, {}, resp, WholeBody)

\* ------------------------------------------------------------ chat_stream
NoCall == [op |-> "none"]

NoStreamResponse == [kind |-> "none", status |-> 0, chunks |-> <<>>]

\* No generator object exists.
NoGen ==
    [state |-> "none", args |-> {}, requests |-> <<>>,
     resp |-> NoStreamResponse, idx |-> 0, delivered |-> 0,
     yielded |-> <<>>, err |-> "", last |-> "", closed |-> FALSE]

\* The command-line program has not been started.
NotRun ==
    [pc |-> "start", argv |-> {}, exit_code |-> 0, stdout |-> <<>>,
     stderr |-> <<>>, client |-> FALSE, call |-> NoCall]

chat_stream_payload(message, model_config) ==
    {<<"message", message>>, <<"model_config", model_config>>}

\* A chat_stream that is an ordinary function: it posts when it is called.
chat_stream_eager ==
    /\ call = NoCall /\ cli = NotRun
    /\ \E message \in Messages, model_config \in ModelConfigs,
          resp \in StreamResponses :
         gen' = [NoGen EXCEPT
                   !.state = "created",
                   !.args = chat_stream_payload(message, model_config),
                   !.requests =
                       <<[method |-> "POST", path |-> <<"chat", "stream">>,
                          body |-> chat_stream_payload(message, model_config)]>>]
    /\ UNCHANGED <<call, cli>>

\* Calling the generator function: the body does not start to run.
chat_stream ==
    /\ call = NoCall /\ cli = NotRun
    /\ \E message \in Messages, model_config \in ModelConfigs :
         gen' = [NoGen EXCEPT
                   !.state = "created",
                   !.args = chat_stream_payload(message, model_config)]
    /\ UNCHANGED <<call, cli>>

\* First next(): the body runs from its start: POST, raise_for_status().
gen_start ==
    /\ call = NoCall /\ cli = NotRun
    /\ gen.state = "created"
    /\ \E resp \in StreamResponses :
         gen' = [gen EXCEPT
                   !.requests = session_request("POST", <<"chat", "stream">>,
                                                gen.args, resp),
                   !.resp = resp,
                   !.state = IF resp.kind # "response" \/ raise_for_status(resp)
                             THEN "done" ELSE "running",
                   !.err = IF resp.kind # "response" THEN resp.kind
                           ELSE IF raise_for_status(resp) THEN "HTTPError"
                           ELSE "",
                   !.last = IF resp.kind # "response" \/ raise_for_status(resp)
                            THEN "raise" ELSE "running"]
    /\ UNCHANGED <<call, cli>>

\* next() on a generator suspended at its yield: the loop goes on.
gen_resume ==
    /\ call = NoCall /\ cli = NotRun
    /\ gen.state = "suspended"
    /\ gen' = [gen EXCEPT !.state = "running", !.last = "running"]
    /\ UNCHANGED <<call, cli>>

\* next() on a finished generator that runs the body again.
gen_next_restart ==
    /\ call = NoCall /\ cli = NotRun
    /\ gen.state = "done"
    /\ \E resp \in StreamResponses :
         /\ resp.kind = "response" /\ ~raise_for_status(resp)
         /\ gen' = [gen EXCEPT
                      !.requests = @ \o session_request(
                                         "POST", <<"chat", "stream">>,
                                         gen.args, resp),
                      !.resp = resp, !.idx = 0, !.delivered = 0,
                      !.yielded = <<>>, !.err = "", !.closed = FALSE,
                      !.state = "running", !.last = "running"]
    /\ UNCHANGED <<call, cli>>

\* next() on a finished generator raises StopIteration and runs no code.
gen_next_finished ==
    /\ call = NoCall /\ cli = NotRun
    /\ gen.state = "done"
    /\ gen' = [gen EXCEPT !.last = "StopIteration"]
    /\ UNCHANGED <<call, cli>>

\* The connection delivers the next chunk of the response body.
deliver ==
    /\ call = NoCall /\ cli = NotRun
    /\ gen.state \in {"running", "suspended"}
    /\ gen.delivered < Len(gen.resp.chunks)
    /\ gen' = [gen EXCEPT !.delivered = @ + 1]
    /\ UNCHANGED <<call, cli>>

\* One turn of `for chunk in response.iter_content(...)` with a chunk at hand:
\* `if chunk: yield chunk.decode('utf-8')`.
gen_iter_chunk ==
    /\ call = NoCall /\ cli = NotRun
    /\ gen.state = "running"
    /\ gen.idx < gen.delivered
    /\ LET chunk == gen.resp.chunks[gen.idx + 1]
           d == decode(chunk)
       IN  gen' = IF chunk = <<>>
                  THEN [gen EXCEPT !.idx = @ + 1]
                  ELSE IF d.ok
                  THEN [gen EXCEPT !.idx = @ + 1,
                                   !.yielded = Append(@, d.text),
                                   !.state = "suspended",
                                   !.last = "yield"]
                  ELSE [gen EXCEPT !.idx = @ + 1,
                                   !.state = "done",
                                   !.err = "UnicodeDecodeError",
                                   !.last = "raise"]
    /\ UNCHANGED <<call, cli>>

\* The response body has ended: the loop and the generator finish.
gen_iter_end ==
    /\ call = NoCall /\ cli = NotRun
    /\ gen.state = "running"
    /\ gen.idx = Len(gen.resp.chunks)
    /\ gen' = [gen EXCEPT !.state = "done", !.last = "StopIteration"]
    /\ UNCHANGED <<call, cli>>

\* The caller abandons the sequence: close(), also run when the generator
\* object is collected.
gen_close ==
    /\ call = NoCall /\ cli = NotRun
    /\ gen.state \in {"created", "suspended"}
    /\ gen' = [gen EXCEPT !.state = "done", !.closed = TRUE]
    /\ UNCHANGED <<call, cli>>

\* ------------------------------------------------------ client method calls
\* The methods share only base_url, timeout and the session, which none of
\* them changes: a behaviour follows one usage (method calls, one streamed
\* chat after another, or one run of the command line).
\* A method starts when the caller holds no result of an earlier call.
Idle == call = NoCall /\ gen = NoGen /\ cli = NotRun

\* The caller is done with the returned value or the raised exception; request
\* and response were locals of the method and are gone with it.
caller_continues ==
    /\ call # NoCall
    /\ call' = NoCall
    /\ UNCHANGED <<gen, cli>>

do_health ==
    /\ Idle
    /\ \E resp \in Responses : call' = health(resp)
    /\ UNCHANGED <<gen, cli>>

do_info ==
    /\ Idle
    /\ \E resp \in Responses : call' = info(resp)
    /\ UNCHANGED <<gen, cli>>

do_chat ==
    /\ Idle
    /\ \E message \in Messages, model_config \in ModelConfigs,
          session_id \in OptSessionIds, resp \in Responses :
         call' = chat(message, model_config, session_id, resp)
    /\ UNCHANGED <<gen, cli>>

do_rag_query ==
    /\ Idle
    /\ \E question \in Messages, collection \in Collections,
          model_config \in ModelConfigs, k \in Ks, resp \in Responses :
         call' = rag_query(question, collection, model_config, k, resp)
    /\ UNCHANGED <<gen, cli>>

do_rag_conversational ==
    /\ Idle
    /\ \E question \in Messages, collection \in Collections,
          session_id \in OptSessionIds, model_config \in ModelConfigs,
          k \in Ks, resp \in Responses :
         call' = rag_conversational(question, collection, session_id,
                                    model_config, k, resp)
    /\ UNCHANGED <<gen, cli>>

do_run_agent ==
    /\ Idle
    /\ \E task \in Messages, agent_type \in AgentTypes, verbose \in Verbose,
          resp \in Responses :
         call' = run_agent(task, agent_type, verbose, resp)
    /\ UNCHANGED <<gen, cli>>

do_troubleshoot ==
    /\ Idle
    /\ \E issue \in Messages, verbose \in Verbose, resp \in Responses :
         call' = troubleshoot(issue, verbose, resp)
    /\ UNCHANGED <<gen, cli>>

do_summarize ==
    /\ Idle
    /\ \E text \in Messages, prompt_type \in PromptTypes,
          model_config \in ModelConfigs, resp \in Responses :
         call' = summarize(text, prompt_type, model_config, resp)
    /\ UNCHANGED <<gen, cli>>

do_analyze_logs ==
    /\ Idle
    /\ \E log_content \in Messages, model_config \in ModelConfigs,
          resp \in Responses :
         call' = analyze_logs(log_content, model_config, resp)
    /\ UNCHANGED <<gen, cli>>

do_analyze_config ==
    /\ Idle
    /\ \E config_content \in Messages, config_type \in ConfigTypes,
          model_config \in ModelConfigs, resp \in Responses :
         call' = analyze_config(config_content, config_type, model_config, resp)
    /\ UNCHANGED <<gen, cli>>

\* Keyword arguments a caller passes to create_memory.
KeywordArgs ==
    {a \cup b \cup c :
       a \in {{}, {<<"session_id", "">>}, {<<"session_id", "s2">>}},
       b \in {{}, {<<"memory_type", "summary">>}},
       c \in {{}, {<<"k", "3">>}, {<<"k", "3">>, <<"max_token_limit", "100">>}}}

do_create_memory ==
    /\ Idle
    /\ \E pos \in SessionIds \cup {None}, kw \in KeywordArgs,
          resp \in Responses :
         /\ Bindable(pos, kw)
         /\ call' = create_memory(bind_session_id(pos, kw),
                                  bind_memory_type(kw), bind_kwargs(kw), resp)
    /\ UNCHANGED <<gen, cli>>

do_get_memory_history ==
    /\ Idle
    /\ \E session_id \in SessionIds, resp \in Responses :
         call' = get_memory_history(session_id, resp)
    /\ UNCHANGED <<gen, cli>>

do_clear_memory ==
    /\ Idle
    /\ \E session_id \in SessionIds, resp \in Responses :
         call' = clear_memory(session_id, resp)
    /\ UNCHANGED <<gen, cli>>

do_list_conversations ==
    /\ Idle
    /\ \E resp \in Responses : call' = list_conversations(resp)
    /\ UNCHANGED <<gen, cli>>

do_get_conversation ==
    /\ Idle
    /\ \E session_id \in SessionIds, resp \in Responses :
         call' = get_conversation(session_id, resp)
    /\ UNCHANGED <<gen, cli>>

do_delete_conversation ==
    /\ Idle
    /\ \E session_id \in SessionIds, resp \in Responses :
         call' = delete_conversation(session_id, resp)
    /\ UNCHANGED <<gen, cli>>

\* ------------------------------------------------------------ command line
Subcommands == {"health", "info", "chat", "rag", "agent", "summarize"}

\* What parser.parse_args() makes of the command line: "usage" is an argparse
\* error (exit status 2), "help" is -h (exit status 0), "ok" a namespace with
\* `command` (None without a subcommand) and the subcommand's options.
Argvs ==
    {[command |-> c, parse |-> p, opts |-> {}] :
        c \in Subcommands \cup {None}, p \in {"usage", "help"}}
    \cup {[command |-> c, parse |-> "ok", opts |-> {}] :
            c \in {None, "health", "info"}}
    \cup {[command |-> "chat", parse |-> "ok",
           opts |-> {<<"message", m>>, <<"model", c>>, <<"session", s>>}] :
            m \in Messages, c \in ModelConfigs, s \in OptSessionIds}
    \cup {[command |-> "rag", parse |-> "ok",
           opts |-> {<<"question", m>>, <<"collection", c>>, <<"k", k>>}] :
            m \in Messages, c \in Collections, k \in Ks}
    \cup {[command |-> "agent", parse |-> "ok",
           opts |-> {<<"task", m>>, <<"type", t>>}] :
            m \in Messages, t \in AgentTypes}
    \cup {[command |-> "summarize", parse |-> "ok",
           opts |-> {<<"text", m>>, <<"prompt_type", t>>}] :
            m \in Messages \cup {"-"}, t \in PromptTypes}

Stdins == {"piped text"}

Exit(argv, code, out, errs, client, c) ==
    [pc |-> "exited", argv |-> argv, exit_code |-> code, stdout |-> out,
     stderr |-> errs, client |-> client, call |-> c]

\* The no-command check with exit status 0.
no_command_exit_zero(argv) == Exit(argv, 0, <<"help">>, <<>>, FALSE, NoCall)

\* `if not args.command: parser.print_help(); sys.exit(1)`
no_command(argv) == Exit(argv, 1, <<"help">>, <<>>, FALSE, NoCall)

\* An exception leaving the try block.  RequestException is caught, printed
\* and turned into exit status 1; anything else ends the interpreter with a
\* traceback and exit status 1.  json_is_request_error: whether the installed
\* requests raises its own JSONDecodeError (a RequestException) from
\* response.json(), or lets the json module's ValueError through.
\* The except clause without its sys.exit(1).
on_exception_no_exit(err, json_is_request_error) ==
    IF err \in RequestErrors \/ (err = "JSONDecodeError" /\ json_is_request_error)
    THEN [exit_code |-> 0, stderr |-> <<"Error:", err>>]
    ELSE [exit_code |-> 1, stderr |-> <<"Traceback", err>>]

on_exception(err, json_is_request_error) ==
    IF err \in RequestErrors \/ (err = "JSONDecodeError" /\ json_is_request_error)
    THEN [exit_code |-> 1, stderr |-> <<"Error:", err>>]
    ELSE [exit_code |-> 1, stderr |-> <<"Traceback", err>>]

\* The print statements of each branch; err is the exception they raise.
print_result(command, value) ==
    CASE command \in {"health", "info"} ->
           [stdout |-> <<"json.dumps(result)">>, err |-> ""]
      [] command \in {"chat", "summarize"} ->
           [stdout |-> <<value>>, err |-> ""]
      [] command = "agent" ->
           IF HasKey(value, "output")
           THEN [stdout |-> <<Get(value, "output")>>, err |-> ""]
           ELSE [stdout |-> <<>>, err |-> "KeyError"]
      [] command = "rag" ->
           IF ~HasKey(value, "answer")
           THEN [stdout |-> <<>>, err |-> "KeyError"]
           ELSE IF ~HasKey(value, "sources")
                   \/ Get(value, "sources") = "without_metadata"
           THEN [stdout |-> <<"Answer:", Get(value, "answer"), "Sources:">>,
                 err |-> "KeyError"]
           ELSE [stdout |-> <<"Answer:", Get(value, "answer"), "Sources:",
                              "1. metadata">>,
                 err |-> ""]

\* The client call of each branch of the if/elif chain.
dispatch(argv, stdin, resp) ==
    CASE argv.command = "health" -> health(resp)
      [] argv.command = "info" -> info(resp)
      [] argv.command = "chat" ->
           chat(Get(argv.opts, "message"), Get(argv.opts, "model"),
                Get(argv.opts, "session"), resp)
      [] argv.command = "rag" ->
           rag_query(Get(argv.opts, "question"), Get(argv.opts, "collection"),
                     "general", Get(argv.opts, "k"), resp)
      [] argv.command = "agent" ->
           run_agent(Get(argv.opts, "task"), Get(argv.opts, "type"), "False",
                     resp)
      [] argv.command = "summarize" ->
           summarize(IF Get(argv.opts, "text") = "-" THEN stdin
                     ELSE Get(argv.opts, "text"),
                     Get(argv.opts, "prompt_type"), "general", resp)

main(argv, stdin, resp, json_is_request_error) ==
    IF argv.parse = "usage"
    THEN Exit(argv, 2, <<>>, <<"usage">>, FALSE, NoCall)
    ELSE IF argv.parse = "help"
    THEN Exit(argv, 0, <<"help">>, <<>>, FALSE, NoCall)
    ELSE IF argv.command = None
    THEN no_command(argv)
    ELSE LET c == dispatch(argv, stdin, resp) IN
         IF c.result.kind = "raise"
         THEN LET h == on_exception(c.result.err, json_is_request_error) IN
              Exit(argv, h.exit_code, <<>>, h.stderr, TRUE, c)
         ELSE LET pr == print_result(argv.command, c.result.value) IN
              IF pr.err = ""
              THEN Exit(argv, 0, pr.stdout, <<>>, TRUE, c)
              ELSE LET h == on_exception(pr.err, json_is_request_error) IN
                   Exit(argv, h.exit_code, pr.stdout, h.stderr, TRUE, c)

run_main ==
    /\ call = NoCall /\ gen = NoGen /\ cli = NotRun
    /\ \E argv \in Argvs, stdin \in Stdins, resp \in Responses,
          json_is_request_error \in BOOLEAN :
         cli' = main(argv, stdin, resp, json_is_request_error)
    /\ UNCHANGED <<call, gen>>

\* ----------------------------------------------------------- specification
Init ==
    /\ call = NoCall
    /\ gen = NoGen
    /\ cli = NotRun

Next ==
    \/ do_health
    \/ do_info
    \/ do_chat
    \/ do_rag_query
    \/ do_rag_conversational
    \/ do_run_agent
    \/ do_troubleshoot
    \/ do_summarize
    \/ do_analyze_logs
    \/ do_analyze_config
    \/ do_create_memory
    \/ do_get_memory_history
    \/ do_clear_memory
    \/ do_list_conversations
    \/ do_get_conversation
    \/ do_delete_conversation
    \/ caller_continues
    \/ chat_stream
    \/ gen_start
    \/ gen_resume
    \/ gen_next_finished
    \/ deliver
    \/ gen_iter_chunk
    \/ gen_iter_end
    \/ gen_close
    \/ run_main

Spec == Init /\ [][Next]_vars

\* ----------------------------------------------------------------- claims
Made(c) == c.op # "none"

Sent(c) == IF Made(c) THEN Len(c.requests) ELSE 0

Answered(c) == Made(c) /\ c.resp.kind = "response"

\* Failing with a request error; an undecodable body counts as one as well.
FailsWithRequestError(c) ==
    /\ c.result.kind = "raise"
    /\ c.result.err \in RequestErrors \cup {"JSONDecodeError"}

C1_call_non2xx(c) ==
    (Answered(c) /\ (c.resp.status < 200 \/ c.resp.status > 299))
        => FailsWithRequestError(c)

\* C1 as stated: every operation fails with the request error, and returns or
\* yields nothing, on every response whose status is not 200..299.
C1_NonSuccessStatusFails ==
    /\ C1_call_non2xx(call)
    /\ C1_call_non2xx(cli.call)
    /\ (gen.resp.kind = "response"
        /\ (gen.resp.status < 200 \/ gen.resp.status > 299))
           => (gen.err \in RequestErrors /\ gen.yielded = <<>>)

C1_call_error_status(c) ==
    (Answered(c) /\ c.resp.status >= 400 /\ c.resp.status <= 599)
        => c.result = Raise("HTTPError")

\* C1 amended: every operation fails with the HTTP request error, and returns
\* or yields nothing, on every response whose status is in 400..599.
C1_ErrorStatusFails ==
    /\ C1_call_error_status(call)
    /\ C1_call_error_status(cli.call)
    /\ (gen.resp.kind = "response"
        /\ gen.resp.status >= 400 /\ gen.resp.status <= 599)
           => (gen.err = "HTTPError" /\ gen.yielded = <<>> /\ gen.state = "done")

C1_Witness ==
    /\ Made(call)
    /\ call.op = "delete_conversation"
    /\ call.resp.kind = "response"
    /\ call.resp.status = 404
    /\ call.resp.body.json
    /\ call.result = Raise("HTTPError")

\* ---- C2
ParsedSubcommand ==
    cli.pc = "exited" /\ cli.argv.parse = "ok" /\ cli.argv.command \in Subcommands

\* The result holds every field the subcommand's print statements read.
Printable(command, value) ==
    CASE command = "rag" ->
           /\ HasKey(value, "answer")
           /\ HasKey(value, "sources")
           /\ Get(value, "sources") # "without_metadata"
      [] command = "agent" -> HasKey(value, "output")
      [] OTHER -> TRUE

\* C2 as stated: a subcommand's run exits 0 when its client call succeeds and
\* 1, with a message on standard error, when the call fails with a request
\* error; no run exits with another code.
C2_ExitCodeZeroOrOne ==
    (cli.pc = "exited" /\ cli.argv.command \in Subcommands) =>
        /\ cli.exit_code \in {0, 1}
        /\ (Made(cli.call) /\ cli.call.result.kind = "return")
              => cli.exit_code = 0
        /\ (Made(cli.call) /\ cli.call.result.kind = "raise"
            /\ cli.call.result.err \in RequestErrors)
              => (cli.exit_code = 1 /\ cli.stderr # <<>>)

\* C2 amended: a subcommand's run whose arguments parse exits 0 when its client
\* call succeeds and the result holds the fields the subcommand prints, and 1
\* with a message on standard error when the call fails with a request error;
\* such a run exits with 0 or 1 only, and 2 is the exit code of exactly the
\* runs whose arguments argparse rejects.
C2_ExitCodeOfParsedRun ==
    /\ ParsedSubcommand =>
         /\ cli.exit_code \in {0, 1}
         /\ Made(cli.call)
         /\ (cli.call.result.kind = "return"
             /\ Printable(cli.argv.command, cli.call.result.value))
               => (cli.exit_code = 0 /\ cli.stderr = <<>>)
         /\ (cli.call.result.kind = "raise"
             /\ cli.call.result.err \in RequestErrors)
               => (cli.exit_code = 1 /\ cli.stderr # <<>>)
    /\ cli.pc = "exited" =>
         /\ cli.exit_code \in {0, 1, 2}
         /\ cli.exit_code = 2 <=> cli.argv.parse = "usage"

C2_Witness ==
    /\ ParsedSubcommand
    /\ cli.argv.command = "summarize"
    /\ cli.call.result = Raise("Timeout")
    /\ cli.exit_code = 1
    /\ cli.stderr = <<"Error:", "Timeout">>

\* ---- C3
StreamSucceeded ==
    /\ gen.resp.kind = "response"
    /\ gen.resp.status >= 200 /\ gen.resp.status <= 299
    /\ gen.delivered = Len(gen.resp.chunks)
    /\ gen.state = "done"
    /\ ~gen.closed

\* C3: once a response body delivered in N chunks has been iterated to its end,
\* chat_stream has yielded N fragments, in order, whose concatenation is the
\* decoded body.
C3_OneFragmentPerChunk ==
    StreamSucceeded =>
        /\ Len(gen.yielded) = Len(gen.resp.chunks)
        /\ Concat(gen.yielded) = decode(Concat(gen.resp.chunks)).text

\* ---- C4
WholeBodyOps ==
    {"health", "info", "rag_query", "rag_conversational", "run_agent",
     "troubleshoot", "analyze_logs", "analyze_config", "create_memory",
     "clear_memory", "get_conversation", "delete_conversation"}

DocumentedField(op) ==
    CASE op = "chat" -> "response"
      [] op = "summarize" -> "summary"
      [] op = "get_memory_history" -> "history"
      [] op = "list_conversations" -> "conversations"

Ok200(c) ==
    Answered(c) /\ c.resp.status = 200 /\ c.resp.body.json

C4_call_documented(c) ==
    Ok200(c) =>
        /\ c.result.kind = "return"
        /\ IF c.op \in WholeBodyOps
           THEN c.result.value = c.resp.body.obj
           ELSE /\ HasKey(c.resp.body.obj, DocumentedField(c.op))
                /\ c.result.value = Get(c.resp.body.obj, DocumentedField(c.op))

\* C4 as stated: on a 200 response with a well-formed JSON body every call
\* returns the whole mapping, or its documented field, unchanged.
C4_DocumentedResult ==
    C4_call_documented(call) /\ C4_call_documented(cli.call)

C4_call_amended(c) ==
    Ok200(c) =>
        IF c.op \in WholeBodyOps
        THEN c.result = Return(c.resp.body.obj)
        ELSE IF HasKey(c.resp.body.obj, DocumentedField(c.op))
        THEN c.result = Return(Get(c.resp.body.obj, DocumentedField(c.op)))
        ELSE c.result = Raise("KeyError")

\* C4 amended: on a 200 response with a well-formed JSON body the whole-mapping
\* calls return the parsed body unchanged; chat, summarize, get_memory_history
\* and list_conversations return their field unchanged when the body is an
\* object that has it, and fail with a KeyError when it has not.
C4_DocumentedResultWhenPresent ==
    C4_call_amended(call) /\ C4_call_amended(cli.call)

C4_Witness ==
    /\ Ok200(call)
    /\ call.op = "chat"
    /\ call.resp.body.obj = FullBody
    /\ call.result = Return("r1")

\* ---- C5
OptionalSessionOps == {"chat", "rag_conversational"}

Body(c) == c.requests[1].body

NoEmptySessionId(body) ==
    HasKey(body, "session_id") => Truthy(Get(body, "session_id"))

\* In chat and rag_conversational a session id that is not given (None or
\* empty) leaves the body without the key; a given one is in it as it is.
C5_call_optional(c) ==
    (Made(c) /\ c.op \in OptionalSessionOps) =>
        LET sid == Get(c.args, "session_id") IN
        /\ Len(c.requests) = 1
        /\ ~Truthy(sid) => ~HasKey(Body(c), "session_id")
        /\ Truthy(sid) => /\ HasKey(Body(c), "session_id")
                          /\ Get(Body(c), "session_id") = sid
        /\ NoEmptySessionId(Body(c))

\* C5 as stated: chat and rag_conversational leave 'session_id' out of the body
\* when none is given and send a given one unchanged, and no call of any
\* method sends 'session_id' null or empty.
C5_SessionIdNeverEmpty ==
    /\ C5_call_optional(call)
    /\ C5_call_optional(cli.call)
    /\ \A i \in 1..Sent(call) : NoEmptySessionId(call.requests[i].body)
    /\ \A i \in 1..Sent(cli.call) : NoEmptySessionId(cli.call.requests[i].body)
    /\ \A i \in 1..Len(gen.requests) : NoEmptySessionId(gen.requests[i].body)

\* C5 amended: chat and rag_conversational leave 'session_id' out of the body
\* when none is given, send a given one unchanged and never send it null or
\* empty; chat_stream never sends the key (create_memory sends its required
\* session id as it is, an empty one too).
C5_OptionalSessionIdOmitted ==
    /\ C5_call_optional(call)
    /\ C5_call_optional(cli.call)
    /\ \A i \in 1..Len(gen.requests) : ~HasKey(gen.requests[i].body, "session_id")

C5_Witness ==
    /\ Made(call)
    /\ call.op = "rag_conversational"
    /\ Get(call.args, "session_id") = ""
    /\ Keys(Body(call)) = {"question", "collection", "model_config", "k"}

\* ---- C6
\* C6: the body create_memory sends is the session id and memory type entries
\* together with every extra keyword pair as given, one entry per key, the
\* session id and memory type being the ones the call was given.
C6_CreateMemoryBody ==
    (Made(call) /\ call.op = "create_memory") =>
        /\ Len(call.requests) = 1
        /\ Body(call) = call.args.fixed \cup call.args.kwargs
        /\ Cardinality(Keys(Body(call))) = Cardinality(Body(call))
        /\ Keys(call.args.fixed) = {"session_id", "memory_type"}
        /\ \A k \in Keys(call.args.fixed) :
              Get(Body(call), k) = Get(call.args.fixed, k)

C6_Witness ==
    /\ Made(call)
    /\ call.op = "create_memory"
    /\ call.args.kwargs = {<<"k", "3">>, <<"max_token_limit", "100">>}
    /\ Body(call) = {<<"session_id", "s2">>, <<"memory_type", "buffer">>,
                     <<"k", "3">>, <<"max_token_limit", "100">>}

\* ---- C7
\* C7 as stated: every operation, chat_stream included, has sent exactly one
\* request when it is over, failed or not, and a run of a subcommand sends
\* exactly one request.
C7_ExactlyOneRequest ==
    /\ Made(call) => Len(call.requests) = 1
    /\ gen.state = "done" => Len(gen.requests) = 1
    /\ ParsedSubcommand => Sent(cli.call) = 1

\* C7 amended: every operation other than chat_stream sends exactly one request
\* per call, failed or not; a chat_stream sequence sends at most one: none
\* before its first fragment is requested, exactly one once its body has run
\* (it is waiting for a chunk, has yielded, or has ended without being closed);
\* a run that reaches a subcommand's client call sends exactly one request.
C7_OneRequestOnceStarted ==
    /\ Made(call) => Len(call.requests) = 1
    /\ Len(gen.requests) <= 1
    /\ (gen.state = "created" \/ gen.last = "") => Len(gen.requests) = 0
    /\ (gen.state \in {"running", "suspended"}
        \/ (gen.state = "done" /\ ~gen.closed)
        \/ gen.yielded # <<>>) => Len(gen.requests) = 1
    /\ ParsedSubcommand => Sent(cli.call) = 1
    /\ cli.pc = "exited" => Sent(cli.call) <= 1

C7_Witness ==
    /\ Made(call)
    /\ call.result = Raise("ConnectionError")
    /\ Len(call.requests) = 1

\* ---- C8
\* C8: a run without a subcommand prints the help text and exits with status
\* 1; no client is constructed and no request is sent.
C8_NoCommandExitsOne ==
    (cli.pc = "exited" /\ cli.argv.parse = "ok" /\ cli.argv.command = None) =>
        /\ cli.exit_code = 1
        /\ cli.stdout = <<"help">>
        /\ ~cli.client
        /\ Sent(cli.call) = 0

C8_Witness ==
    /\ cli.pc = "exited"
    /\ cli.argv = [command |-> None, parse |-> "ok", opts |-> {}]
    /\ cli.exit_code = 1

\* ---- C9
\* Every fragment is the decoding of the chunk at its place, and that chunk has
\* been delivered.
FragmentsFollowDelivery ==
    /\ Len(gen.yielded) <= gen.idx
    /\ gen.idx <= gen.delivered
    /\ gen.delivered <= Len(gen.resp.chunks)
    /\ \A i \in 1..Len(gen.yielded) : gen.yielded[i] = decode(gen.resp.chunks[i]).text

SameSequence == gen'.state # "created"

\* A finished sequence (exhausted, failed or closed) stays finished: no step on
\* it yields a fragment or sends a request.
FinishedStaysFinished ==
    (gen.state = "done" /\ SameSequence) =>
        /\ gen'.state = "done"
        /\ gen'.yielded = gen.yielded
        /\ gen'.requests = gen.requests

\* With the whole body consumed, the step of the running generator ends it.
EndsWithBody ==
    (gen.state = "running" /\ gen.idx = Len(gen.resp.chunks)
     /\ SameSequence /\ gen' # gen) =>
        /\ gen'.state = "done"
        /\ gen'.last = "StopIteration"
        /\ gen'.yielded = gen.yielded

NoRequestBeforeIteration ==
    (gen.state = "created" \/ gen.last = "") =>
        (gen.requests = <<>> /\ gen.err = "" /\ gen.resp = NoStreamResponse)

\* The request goes out, and an error of the exchange is raised, in the step
\* that runs the first next() of a created generator.
RequestSentByFirstNext ==
    (gen'.requests # gen.requests /\ SameSequence) =>
        /\ gen.state = "created"
        /\ gen.requests = <<>>
        /\ gen'.last \in {"running", "raise"}
        /\ gen'.requests =
             <<[method |-> "POST", path |-> <<"chat", "stream">>,
                body |-> gen.args]>>

ExchangeErrorRaisedByFirstNext ==
    (gen'.err \in RequestErrors /\ gen.err = "" /\ SameSequence) =>
        (gen.state = "created" /\ gen'.last = "raise")

\* C10: calling chat_stream sends nothing and raises nothing; the POST to
\* /chat/stream goes out, and a network, timeout or status error is raised,
\* when the first fragment is requested; a sequence never iterated sends
\* nothing.
C10_RequestOnFirstNext ==
    /\ []NoRequestBeforeIteration
    /\ [][RequestSentByFirstNext /\ ExchangeErrorRaisedByFirstNext]_vars

C10_Witness ==
    /\ gen.state = "done"
    /\ gen.closed
    /\ gen.last = ""
    /\ gen.requests = <<>>

====
